---- MODULE Spec2Model ----
(***************************************************************************)
(* Model of tcp_keepalive_offload.c: the offload descriptor lookup         *)
(* (find_my_tko_descriptor), the Wi-Fi association with bounded retry      *)
(* (wifi_connect), the TCP connection establishment driven by the TKO      *)
(* offload configuration (tcp_socket_connection_start) and the task that   *)
(* suspends the network stack forever (network_idle_task).                 *)
(*                                                                         *)
(* The startup thread is one sequential program counter (pc); the idle     *)
(* task has its own (idle_pc).  Collaborators (cy_wcm_*, cy_socket_init,   *)
(* cy_tcp_create_socket_connection, wait_net_suspend, vTaskDelay) are the  *)
(* environment: their outcomes are drawn with \E at the call.              *)
(***************************************************************************)
EXTENDS Integers, Sequences, FiniteSets, TLC

(* ------------------------------------------------------------------ *)
(* Bounds and compile-time configuration                              *)
(* ------------------------------------------------------------------ *)

\* Number of connection slots (LPA middleware macro used at lines 81, 207).
MAX_TKO == 3

\* Association retry bound (app_config.h macro used at line 295).
MAX_WIFI_RETRY_COUNT == 3

\* Longest descriptor list (before its sentinel) drawn for the lookup.
MaxDescs == 2

\* Number of lookups made in a row by the lookup harness.
MaxLookups == 2

\* The idle loop's call counter saturates here (the loop itself never stops).
MaxIdleCalls == 2

(* ------------------------------------------------------------------ *)
(* Values                                                             *)
(* ------------------------------------------------------------------ *)

NULL == 0

CY_RSLT_SUCCESS == "CY_RSLT_SUCCESS"
CY_RSLT_TYPE_ERROR == "CY_RSLT_TYPE_ERROR"

\* Failure codes the collaborators may report.
WcmErrors == {"WCM_ERR_A", "WCM_ERR_B"}
SocketErrors == {"SOCKET_ERR_A", "SOCKET_ERR_B"}
SocketInitErrors == {"SOCKET_INIT_ERR"}

NoStatus == "none"

\* C strings are sequences of characters; NUL is the terminator read at the end.
NUL == "NUL"
TCP_KEEPALIVE_OFFLOAD == <<"T", "K", "O">>

NULL_IP_ADDRESS == <<"0">>
ServerIp == <<"1">>

Slots == 0 .. (MAX_TKO - 1)

(* ------------------------------------------------------------------ *)
(* C string functions used by the code                                *)
(* ------------------------------------------------------------------ *)

\* The character read at the front of a string: NUL once the text is used up.
FirstChar(s) == IF s = <<>> THEN NUL ELSE Head(s)

Rest(s) == IF s = <<>> THEN <<>> ELSE Tail(s)

strlen(s) == Len(s)

\* strncmp: 0 when the first n characters agree (stopping at a common NUL),
\* non-zero at the first difference.
RECURSIVE strncmp(_, _, _)
strncmp(s1, s2, n) ==
    IF n = 0 THEN 0
    ELSE IF FirstChar(s1) # FirstChar(s2) THEN 1
    ELSE IF FirstChar(s1) = NUL THEN 0
    ELSE strncmp(Rest(s1), Rest(s2), n - 1)

\* strcmp: the comparison runs to the end of both strings.
RECURSIVE strcmp(_, _)
strcmp(s1, s2) ==
    IF FirstChar(s1) # FirstChar(s2) THEN 1
    ELSE IF FirstChar(s1) = NUL THEN 0
    ELSE strcmp(Rest(s1), Rest(s2))

(* ------------------------------------------------------------------ *)
(* Offload descriptor list                                            *)
(* ------------------------------------------------------------------ *)

\* An ol_desc_t: named = FALSE is a NULL name pointer; cfg is NULL or 1, the
\* address of the cy_tko_ol_cfg_t blob.
CFG == 1

Desc(nm, c) == [named |-> TRUE, name |-> nm, cfg |-> c]

\* The entry that terminates a list: its name is NULL.
Sentinel == [named |-> FALSE, name |-> <<>>, cfg |-> NULL]

\* The entry at address p of the descriptor array.  An address outside the
\* array holds nothing the program owns; it reads as an unnamed entry.
Deref(mem, p) == IF p \in DOMAIN mem THEN mem[p] ELSE Sentinel

\* Faulty variant: the names are compared in full (strcmp).
ScanContinuesExact(mem, p, name) ==
    /\ p # NULL
    /\ Deref(mem, p).named
    /\ 0 # strcmp(Deref(mem, p).name, name)

\* Loop condition of the scan (lines 105-106).
ScanContinues(mem, p, name) ==
    /\ p # NULL
    /\ Deref(mem, p).named
    /\ 0 # strncmp(Deref(mem, p).name, name, strlen(name))

\* The while loop of lines 105-109 started at address p: the address it stops
\* at and the addresses it has read.
RECURSIVE ScanFrom(_, _, _, _)
ScanFrom(mem, p, name, seen) ==
    IF ScanContinues(mem, p, name)
    THEN ScanFrom(mem, p + 1, name, seen \cup {p})
    ELSE [stop |-> p, examined |-> IF p = NULL THEN seen ELSE seen \cup {p}]

\* find_my_tko_descriptor over the list get_default_ol_list() returns (base):
\* ret is the address of the descriptor found, or NULL.
find_my_tko_descriptor(base, mem, name) ==
    LET scan == ScanFrom(mem, base, name, {})
        p == scan.stop
    IN  [ret |-> IF p = NULL \/ ~Deref(mem, p).named THEN NULL ELSE p,
         examined |-> scan.examined]

(* ------------------------------------------------------------------ *)
(* TKO port bindings                                                  *)
(* ------------------------------------------------------------------ *)

Binding(ip, rport, lport) == [remote_ip |-> ip, remote_port |-> rport, local_port |-> lport]

\* The bindings a slot is configured with: a complete one, one with a single
\* field left unset, and one wholly unset.
PortBinding ==
    {Binding(ServerIp, 3360, 3353),
     Binding(NULL_IP_ADDRESS, 3360, 3353),
     Binding(ServerIp, 0, 3353),
     Binding(ServerIp, 3360, 0),
     Binding(NULL_IP_ADDRESS, 0, 0)}

\* Faulty variant: the three conditions joined by || instead of &&.
IsActiveAnyField(port) ==
    \/ port.remote_port > 0
    \/ port.local_port > 0
    \/ strcmp(port.remote_ip, NULL_IP_ADDRESS) # 0

\* The test of lines 211-213: the binding is configured.
IsActive(port) ==
    /\ port.remote_port > 0
    /\ port.local_port > 0
    /\ strcmp(port.remote_ip, NULL_IP_ADDRESS) # 0

\* The socket handle cy_tcp_create_socket_connection creates for binding i.
Handle(i) == i + 1

(* ------------------------------------------------------------------ *)
(* State                                                              *)
(* ------------------------------------------------------------------ *)

VARIABLES
    \* configuration, fixed at build time
    ol_base,                    \* what get_default_ol_list() returns: NULL or address 1
    ol_mem,                     \* the descriptor array: entries, a sentinel, what follows
    tko_ports,                  \* downloaded->ports[], indexed by slot
    wifi_retry_max,             \* the value of MAX_WIFI_RETRY_COUNT in the build
    \* startup thread
    pc,
    \* wifi_connect
    wifi_result,                \* local result
    retry_count,                \* local retry_count
    wcm_init_calls,             \* calls of cy_wcm_init made
    wcm_init_status,            \* status cy_wcm_init reported
    wifi_attempts,              \* calls of cy_wcm_connect_ap made
    wifi_last,                  \* status of the latest cy_wcm_connect_ap call
    wifi_first_ok,              \* number of the first attempt that succeeded, 0 if none
    wifi_ret,                   \* value wifi_connect returned
    \* tcp_socket_connection_start
    tcp_result,                 \* local result
    offload_list,               \* local offload_list
    index,                      \* local index
    socket_connection_status,   \* local socket_connection_status
    global_socket,              \* the global table of socket handles
    attempted,                  \* slots passed to cy_tcp_create_socket_connection, in order
    conn_status,                \* per slot, the status its connect call reported
    tcp_ret,                    \* value tcp_socket_connection_start returned
    sock_init_calls,            \* calls of cy_socket_init made
    sock_init_status,           \* status cy_socket_init reported
    find_calls,                 \* calls of find_my_tko_descriptor made by the function
    \* network_idle_task
    idle_pc,
    suspend_calls,              \* calls of wait_net_suspend made (saturating)
    suspend_args,               \* arguments of the latest wait_net_suspend call
    idle_last,                  \* the latest call the idle task made
    \* lookup harness
    lookup_name,
    lookup_log                  \* results of the lookups made so far

cfg_vars == <<ol_base, ol_mem, tko_ports, wifi_retry_max>>
wifi_vars == <<wifi_result, retry_count, wcm_init_calls, wcm_init_status, wifi_attempts,
               wifi_last, wifi_first_ok, wifi_ret>>
tcp_calls == <<sock_init_calls, sock_init_status, find_calls>>
tcp_vars == <<tcp_result, offload_list, index, socket_connection_status, global_socket,
              attempted, conn_status, tcp_ret, tcp_calls>>
idle_vars == <<idle_pc, suspend_calls, suspend_args, idle_last>>
lookup_vars == <<lookup_name, lookup_log>>

vars == <<cfg_vars, pc, wifi_vars, tcp_vars, idle_vars, lookup_vars>>

(* ------------------------------------------------------------------ *)
(* Initial states                                                     *)
(* ------------------------------------------------------------------ *)

ARP == <<"A", "R", "P">>
TKOX == <<"T", "K", "O", "X">>
TK == <<"T", "K">>

\* Descriptor lists the startup sequence is run over.
StartupDescs == {Desc(TCP_KEEPALIVE_OFFLOAD, CFG), Desc(TCP_KEEPALIVE_OFFLOAD, NULL),
                 Desc(ARP, CFG)}

StartupLists ==
    {<<>>} \cup {<<a>> : a \in StartupDescs}
           \cup {<<Desc(ARP, CFG), a>> : a \in StartupDescs}

\* State every entry point starts from: locals unset, the table all NULL
\* (line 81), no task created.
InitRun ==
    /\ wifi_result = CY_RSLT_SUCCESS
    /\ retry_count = 0
    /\ wcm_init_calls = 0
    /\ wcm_init_status = NoStatus
    /\ wifi_attempts = 0
    /\ wifi_last = NoStatus
    /\ wifi_first_ok = 0
    /\ wifi_ret = NoStatus
    /\ tcp_result = CY_RSLT_SUCCESS
    /\ offload_list = NULL
    /\ index = 0
    /\ socket_connection_status = CY_RSLT_SUCCESS
    /\ global_socket = [i \in Slots |-> NULL]
    /\ attempted = <<>>
    /\ conn_status = [i \in Slots |-> NoStatus]
    /\ tcp_ret = NoStatus
    /\ sock_init_calls = 0
    /\ sock_init_status = NoStatus
    /\ find_calls = 0
    /\ idle_pc = "not_created"
    /\ suspend_calls = 0
    /\ suspend_args = <<>>
    /\ idle_last = "none"
    /\ lookup_log = <<>>

Init ==
    /\ \E l \in StartupLists :
          \/ ol_base = NULL /\ ol_mem = <<Sentinel>> /\ l = <<>>
          \/ ol_base = 1 /\ ol_mem = l \o <<Sentinel>>
    /\ tko_ports \in [Slots -> PortBinding]
    /\ wifi_retry_max = MAX_WIFI_RETRY_COUNT
    /\ lookup_name = TCP_KEEPALIVE_OFFLOAD
    /\ pc = "wifi_init"
    /\ InitRun

(* ------------------------------------------------------------------ *)
(* wifi_connect (lines 275-316)                                       *)
(* ------------------------------------------------------------------ *)

WcmStatuses == {CY_RSLT_SUCCESS} \cup WcmErrors

\* Faulty variant: the join loop is entered whatever cy_wcm_init reported.
AfterWcmInitAlwaysJoin(r) == "wifi_loop"

\* Where wifi_connect goes after cy_wcm_init reported r (line 283).
AfterWcmInit(r) == IF CY_RSLT_SUCCESS = r THEN "wifi_loop" ELSE "wifi_return"

\* Lines 281-283: result = cy_wcm_init(&wcm_config); the join loop is entered
\* only when it succeeded.
WifiInit ==
    /\ pc = "wifi_init"
    /\ \E r \in WcmStatuses :
          /\ wifi_result' = r
          /\ wcm_init_status' = r
          /\ pc' = AfterWcmInit(r)
    /\ wcm_init_calls' = wcm_init_calls + 1
    /\ retry_count' = 0
    /\ UNCHANGED <<cfg_vars, wifi_attempts, wifi_last, wifi_first_ok, wifi_ret, tcp_vars,
                   idle_vars, lookup_vars>>

\* Faulty variant: no break after a successful attempt.
AfterAttemptNoBreak(r) == "wifi_loop"

\* Where the join loop goes after an attempt reported r (lines 299-312).
AfterAttempt(r) == IF CY_RSLT_SUCCESS = r THEN "wifi_return" ELSE "wifi_loop"

\* Lines 295-312, one iteration: result = cy_wcm_connect_ap(...); break on
\* success, otherwise retry_count++.
WifiAttempt ==
    /\ pc = "wifi_loop"
    /\ retry_count < wifi_retry_max
    /\ \E r \in WcmStatuses :
          LET next == AfterAttempt(r)
          IN  /\ wifi_result' = r
              /\ wifi_last' = r
              /\ wifi_first_ok' = IF CY_RSLT_SUCCESS = r /\ wifi_first_ok = 0
                                  THEN wifi_attempts + 1 ELSE wifi_first_ok
              /\ pc' = next
              /\ retry_count' = IF next = "wifi_loop" THEN retry_count + 1 ELSE retry_count
    /\ wifi_attempts' = wifi_attempts + 1
    /\ UNCHANGED <<cfg_vars, wcm_init_calls, wcm_init_status, wifi_ret, tcp_vars, idle_vars,
                   lookup_vars>>

\* Line 295: the loop condition fails, every attempt was used.
WifiExhausted ==
    /\ pc = "wifi_loop"
    /\ ~(retry_count < wifi_retry_max)
    /\ pc' = "wifi_return"
    /\ UNCHANGED <<cfg_vars, wifi_vars, tcp_vars, idle_vars, lookup_vars>>

\* Faulty variant: CY_RSLT_SUCCESS is returned whatever result holds.
WifiReturnValueSuccess == CY_RSLT_SUCCESS

\* The value returned at line 315.
WifiReturnValue == wifi_result

\* Line 315: return result.
WifiReturn ==
    /\ pc = "wifi_return"
    /\ wifi_ret' = WifiReturnValue
    /\ pc' = "main_after_wifi"
    /\ UNCHANGED <<cfg_vars, wifi_result, retry_count, wcm_init_calls, wcm_init_status,
                   wifi_attempts, wifi_last, wifi_first_ok, tcp_vars, idle_vars, lookup_vars>>

(* ------------------------------------------------------------------ *)
(* Startup sequence: the caller of the two entry points               *)
(* ------------------------------------------------------------------ *)

\* What the caller does with wifi_connect's status: connection establishment
\* follows a successful association only.
AfterWifi(r) == IF r = CY_RSLT_SUCCESS THEN "sock_init" ELSE "main_stopped"

MainAfterWifi ==
    /\ pc = "main_after_wifi"
    /\ pc' = AfterWifi(wifi_ret)
    /\ UNCHANGED <<cfg_vars, wifi_vars, tcp_vars, idle_vars, lookup_vars>>

\* The idle task is created once tcp_socket_connection_start has returned,
\* whatever it returned.
MainCreateIdleTask ==
    /\ pc = "main_after_tcp"
    /\ idle_pc = "not_created"
    /\ pc' = "main_done"
    /\ idle_pc' = "call_suspend"
    /\ UNCHANGED <<cfg_vars, wifi_vars, tcp_vars, suspend_calls, suspend_args, idle_last,
                   lookup_vars>>

(* ------------------------------------------------------------------ *)
(* tcp_socket_connection_start (lines 174-258)                        *)
(* ------------------------------------------------------------------ *)

\* Line 184: result = cy_socket_init().
TcpSocketInit ==
    /\ pc = "sock_init"
    /\ \E r \in {CY_RSLT_SUCCESS} \cup SocketInitErrors :
          /\ tcp_result' = r
          /\ sock_init_status' = r
    /\ sock_init_calls' = sock_init_calls + 1
    /\ pc' = "sock_assert"
    /\ UNCHANGED <<cfg_vars, wifi_vars, offload_list, index, socket_connection_status,
                   global_socket, attempted, conn_status, tcp_ret, find_calls, idle_vars,
                   lookup_vars>>

\* Faulty variant: the assertion does nothing and the function goes on.
AfterSocketInitContinue(r) == "find"

\* Where the function goes after cy_socket_init reported r: a failure is fatal.
AfterSocketInit(r) == IF r = CY_RSLT_SUCCESS THEN "find" ELSE "halted"

\* Line 186: PRINT_AND_ASSERT(result, ...) stops the program on a failed
\* initialization.
PrintAndAssert ==
    /\ pc = "sock_assert"
    /\ pc' = AfterSocketInit(tcp_result)
    /\ UNCHANGED <<cfg_vars, wifi_vars, tcp_vars, idle_vars, lookup_vars>>

\* downloaded: the cfg field of the descriptor found (line 198).
Downloaded(ol) == Deref(ol_mem, ol).cfg

\* Faulty variant: the else branch of lines 250-255 records no error.
MissingConfigStatusSuccess == CY_RSLT_SUCCESS

\* The status recorded when the policy blob is absent (line 254).
MissingConfigStatus == CY_RSLT_TYPE_ERROR

\* Lines 189-195: the descriptor is looked up; without one the function
\* returns CY_RSLT_TYPE_ERROR at once.
TcpFindNone ==
    /\ pc = "find"
    /\ LET ol == find_my_tko_descriptor(ol_base, ol_mem, TCP_KEEPALIVE_OFFLOAD).ret
       IN  /\ NULL = ol
           /\ offload_list' = ol
    /\ tcp_ret' = CY_RSLT_TYPE_ERROR
    /\ find_calls' = find_calls + 1
    /\ pc' = "main_after_tcp"
    /\ UNCHANGED <<cfg_vars, wifi_vars, tcp_result, index, socket_connection_status,
                   global_socket, attempted, conn_status, sock_init_calls, sock_init_status,
                   idle_vars, lookup_vars>>

\* Lines 189-207: the descriptor is found and its cfg is not NULL: the loop
\* over the slots starts at index 0.
TcpFindConfig ==
    /\ pc = "find"
    /\ LET ol == find_my_tko_descriptor(ol_base, ol_mem, TCP_KEEPALIVE_OFFLOAD).ret
       IN  /\ NULL # ol
           /\ NULL # Downloaded(ol)
           /\ offload_list' = ol
    /\ index' = 0
    /\ find_calls' = find_calls + 1
    /\ pc' = "conn_loop"
    /\ UNCHANGED <<cfg_vars, wifi_vars, tcp_result, socket_connection_status,
                   global_socket, attempted, conn_status, tcp_ret, sock_init_calls,
                   sock_init_status, idle_vars, lookup_vars>>

\* Lines 189-200 and 250-255: the descriptor is found but its cfg is NULL.
TcpFindNoConfig ==
    /\ pc = "find"
    /\ LET ol == find_my_tko_descriptor(ol_base, ol_mem, TCP_KEEPALIVE_OFFLOAD).ret
       IN  /\ NULL # ol
           /\ NULL = Downloaded(ol)
           /\ offload_list' = ol
    /\ socket_connection_status' = MissingConfigStatus
    /\ find_calls' = find_calls + 1
    /\ pc' = "tcp_return"
    /\ UNCHANGED <<cfg_vars, wifi_vars, tcp_result, index, global_socket, attempted,
                   conn_status, tcp_ret, sock_init_calls, sock_init_status, idle_vars,
                   lookup_vars>>

\* Faulty variant: the handle goes to the first free slot, not to slot i.
StoreHandleFirstFree(table, i, r) ==
    IF CY_RSLT_SUCCESS = r
    THEN LET free == {j \in DOMAIN table : table[j] = NULL}
             k == CHOOSE j \in free : \A m \in free : j <= m
         IN  [table EXCEPT ![k] = Handle(i)]
    ELSE table

\* Faulty variant: every handle goes to slot 0 (&global_socket[0]).
StoreHandleSlotZero(table, i, r) ==
    IF CY_RSLT_SUCCESS = r THEN [table EXCEPT ![0] = Handle(i)] ELSE table

\* cy_tcp_create_socket_connection(netif, (void **)&global_socket[i], ...)
\* reporting r (lines 222-228): on success the new handle is written through
\* the pointer it was given; on failure the pointed-to slot is left as it was.
StoreHandle(table, i, r) ==
    IF CY_RSLT_SUCCESS = r THEN [table EXCEPT ![i] = Handle(i)] ELSE table

\* Faulty variant: the status of every connect is recorded, success included.
NextStatusOverwrite(status, r) == r

\* Faulty variant: only the first failure is recorded.
NextStatusKeepFirst(status, r) ==
    IF CY_RSLT_SUCCESS # r /\ status = CY_RSLT_SUCCESS THEN r ELSE status

\* Lines 230-236: socket_connection_status after a connect reported r.
NextStatus(status, r) == IF CY_RSLT_SUCCESS # r THEN r ELSE status

\* Faulty variant: a failed connect ends the loop.
AfterConnectAbortOnFailure(r) == IF CY_RSLT_SUCCESS # r THEN "tcp_return" ELSE "conn_loop"

\* Where the loop goes after a connect reported r: to the next index.
AfterConnect(r) == "conn_loop"

\* Lines 207-241, one iteration over an active binding.
TcpConnect ==
    /\ pc = "conn_loop"
    /\ index < MAX_TKO
    /\ IsActive(tko_ports[index])
    /\ \E r \in {CY_RSLT_SUCCESS} \cup SocketErrors :
          /\ tcp_result' = r
          /\ global_socket' = StoreHandle(global_socket, index, r)
          /\ socket_connection_status' = NextStatus(socket_connection_status, r)
          /\ conn_status' = [conn_status EXCEPT ![index] = r]
          /\ pc' = AfterConnect(r)
    /\ attempted' = Append(attempted, index)
    /\ index' = index + 1
    /\ UNCHANGED <<cfg_vars, wifi_vars, offload_list, tcp_ret, tcp_calls, idle_vars,
                   lookup_vars>>

\* Lines 207-213 and 243-247, one iteration over a binding that is not
\* configured: nothing but a message.
TcpSkip ==
    /\ pc = "conn_loop"
    /\ index < MAX_TKO
    /\ ~IsActive(tko_ports[index])
    /\ index' = index + 1
    /\ UNCHANGED <<cfg_vars, pc, wifi_vars, tcp_result, offload_list,
                   socket_connection_status, global_socket, attempted, conn_status, tcp_ret,
                   tcp_calls, idle_vars, lookup_vars>>

\* Line 207: the loop condition fails.
TcpLoopDone ==
    /\ pc = "conn_loop"
    /\ ~(index < MAX_TKO)
    /\ pc' = "tcp_return"
    /\ UNCHANGED <<cfg_vars, wifi_vars, tcp_vars, idle_vars, lookup_vars>>

\* Line 257: return socket_connection_status.
TcpReturn ==
    /\ pc = "tcp_return"
    /\ tcp_ret' = socket_connection_status
    /\ pc' = "main_after_tcp"
    /\ UNCHANGED <<cfg_vars, wifi_vars, tcp_result, offload_list, index,
                   socket_connection_status, global_socket, attempted, conn_status,
                   tcp_calls, idle_vars, lookup_vars>>

(* ------------------------------------------------------------------ *)
(* network_idle_task (lines 137-156)                                  *)
(* ------------------------------------------------------------------ *)

Min(a, b) == IF a < b THEN a ELSE b

\* The arguments forwarded at lines 144-147, after the interface.
SuspendArgs == <<"portMAX_DELAY", "NETWORK_INACTIVE_INTERVAL_MS", "NETWORK_INACTIVE_WINDOW_MS">>

\* Lines 144-147: wait_net_suspend is called; the task blocks in it.
IdleCallSuspend ==
    /\ idle_pc = "call_suspend"
    /\ idle_pc' = "suspended"
    /\ suspend_calls' = Min(suspend_calls + 1, MaxIdleCalls)
    /\ suspend_args' = SuspendArgs
    /\ idle_last' = "wait_net_suspend"
    /\ UNCHANGED <<cfg_vars, pc, wifi_vars, tcp_vars, lookup_vars>>

\* Faulty variant: no vTaskDelay, the loop goes straight to the next call.
AfterSuspendNoDelay == "call_suspend"

\* Where the task goes when wait_net_suspend returns: into vTaskDelay (line 154).
AfterSuspend == "settling"

\* wait_net_suspend returns (network activity, decided by the offload
\* manager) and vTaskDelay is called at line 154.
SuspendReturns ==
    /\ idle_pc = "suspended"
    /\ idle_pc' = AfterSuspend
    /\ idle_last' = IF AfterSuspend = "settling" THEN "vTaskDelay" ELSE idle_last
    /\ UNCHANGED <<cfg_vars, pc, wifi_vars, tcp_vars, suspend_calls, suspend_args,
                   lookup_vars>>

\* Faulty variant: the loop body runs once and the task function ends.
AfterDelayLeaveLoop == "exited"

\* Where the task goes when the delay is over: while (true), line 141.
AfterDelay == "call_suspend"

\* vTaskDelay returns.
DelayElapses ==
    /\ idle_pc = "settling"
    /\ idle_pc' = AfterDelay
    /\ UNCHANGED <<cfg_vars, pc, wifi_vars, tcp_vars, suspend_calls, suspend_args,
                   idle_last, lookup_vars>>

IdleNext == IdleCallSuspend \/ SuspendReturns \/ DelayElapses

(* ------------------------------------------------------------------ *)
(* Specifications                                                     *)
(* ------------------------------------------------------------------ *)

Next ==
    \/ WifiInit
    \/ WifiAttempt
    \/ WifiExhausted
    \/ WifiReturn
    \/ MainAfterWifi
    \/ TcpSocketInit
    \/ PrintAndAssert
    \/ TcpFindNone
    \/ TcpFindConfig
    \/ TcpFindNoConfig
    \/ TcpConnect
    \/ TcpSkip
    \/ TcpLoopDone
    \/ TcpReturn
    \/ MainCreateIdleTask
    \/ IdleCallSuspend
    \/ SuspendReturns
    \/ DelayElapses

Spec == Init /\ [][Next]_vars

\* The idle task is scheduled whenever it is ready to run, and the settle
\* delay completes; wait_net_suspend may block forever.
LiveSpec == Init /\ [][Next]_vars /\ WF_vars(IdleCallSuspend) /\ WF_vars(DelayElapses)

\* The startup sequence in builds of every retry bound from 0 up.
RetryInit ==
    /\ \E l \in StartupLists :
          \/ ol_base = NULL /\ ol_mem = <<Sentinel>> /\ l = <<>>
          \/ ol_base = 1 /\ ol_mem = l \o <<Sentinel>>
    /\ tko_ports \in [Slots -> PortBinding]
    /\ wifi_retry_max \in 0 .. MAX_WIFI_RETRY_COUNT
    /\ lookup_name = TCP_KEEPALIVE_OFFLOAD
    /\ pc = "wifi_init"
    /\ InitRun

RetrySpec == RetryInit /\ [][Next]_vars

(* ------------------------------------------------------------------ *)
(* Lookup harness: find_my_tko_descriptor over drawn lists and names  *)
(* ------------------------------------------------------------------ *)

LookupNameValues == {TK, TCP_KEEPALIVE_OFFLOAD, TKOX, ARP}

LookupDescs == {Desc(nm, c) : nm \in LookupNameValues, c \in {NULL, CFG}}

LookupNames == LookupNameValues \cup {<<>>}

SeqsUpTo(S, n) == UNION {[1 .. k -> S] : k \in 0 .. n}

\* The array holds the list, its sentinel, and possibly an entry of whatever
\* follows the list in memory.
LookupInit ==
    /\ \/ ol_base = NULL /\ ol_mem = <<Sentinel>>
       \/ /\ ol_base = 1
          /\ \E l \in SeqsUpTo(LookupDescs, MaxDescs), after \in SeqsUpTo(LookupDescs, 1) :
                ol_mem = l \o <<Sentinel>> \o after
    /\ tko_ports = [i \in Slots |-> Binding(NULL_IP_ADDRESS, 0, 0)]
    /\ wifi_retry_max = MAX_WIFI_RETRY_COUNT
    /\ lookup_name \in LookupNames
    /\ pc = "lookup"
    /\ InitRun

\* One call find_my_tko_descriptor(lookup_name).
LookupCall ==
    /\ pc = "lookup"
    /\ Len(lookup_log) < MaxLookups
    /\ lookup_log' = Append(lookup_log, find_my_tko_descriptor(ol_base, ol_mem, lookup_name))
    /\ UNCHANGED <<cfg_vars, pc, wifi_vars, tcp_vars, idle_vars, lookup_name>>

LookupNext == LookupCall

LookupSpec == LookupInit /\ [][LookupNext]_vars

(* ------------------------------------------------------------------ *)
(* Properties                                                         *)
(* ------------------------------------------------------------------ *)

\* Binding i is active: both ports are set and the address is not the
\* "no address" value.
BindingActive(i) ==
    /\ tko_ports[i].remote_port > 0
    /\ tko_ports[i].local_port > 0
    /\ tko_ports[i].remote_ip # NULL_IP_ADDRESS

ActiveSlots == {i \in Slots : BindingActive(i)}

\* Slots whose connect call reported a failure, and those that reported success.
FailedSlots == {i \in Slots : conn_status[i] \notin {NoStatus, CY_RSLT_SUCCESS}}

ConnectedSlots == {i \in Slots : conn_status[i] = CY_RSLT_SUCCESS}

\* tcp_socket_connection_start has returned.
TcpReturned == tcp_ret # NoStatus

\* The lookup is over and gave a descriptor whose policy blob is present.
ConfigFound == offload_list # NULL /\ Downloaded(offload_list) # NULL

\* The lookup is over and gave no descriptor, or one without a policy blob.
ConfigMissing ==
    /\ pc \in {"tcp_return", "main_after_tcp", "main_done"}
    /\ ~ConfigFound

MaxOf(S) == CHOOSE x \in S : \A y \in S : y <= x

\* The elements of a set of slots in increasing order.
RECURSIVE Ascending(_)
Ascending(S) ==
    IF S = {} THEN <<>>
    ELSE LET m == MaxOf(S) IN Append(Ascending(S \ {m}), m)

\* C1: with the descriptor found and its policy blob present,
\* tcp_socket_connection_start returns CY_RSLT_SUCCESS if and only if the
\* connect of every active binding succeeded; a failed connect gives a
\* non-success return even when other slots connected.
C1_SuccessIffAllActiveConnected ==
    (TcpReturned /\ ConfigFound) =>
        ((tcp_ret = CY_RSLT_SUCCESS) <=>
            (\A i \in ActiveSlots : conn_status[i] = CY_RSLT_SUCCESS))

C1_Witness ==
    /\ TcpReturned
    /\ ConfigFound
    /\ FailedSlots # {}
    /\ \E j \in ConnectedSlots : \E i \in FailedSlots : i < j
    /\ tcp_ret # CY_RSLT_SUCCESS

\* C2: one call attempts exactly one connect per active binding, in
\* increasing slot order, skipping the inactive ones: while the loop stands at
\* index the connects made are those of the active slots below index, each
\* once, in order, and at the return every slot has been passed, whatever the
\* connects reported.
C2_OneAttemptPerActiveSlotInOrder ==
    /\ (ConfigFound /\ pc = "conn_loop") =>
          attempted = Ascending({i \in ActiveSlots : i < index})
    /\ (ConfigFound /\ (TcpReturned \/ pc = "tcp_return")) =>
          attempted = Ascending(ActiveSlots)

C2_Witness ==
    /\ TcpReturned
    /\ ConfigFound
    /\ Len(attempted) >= 2
    /\ attempted[1] \in FailedSlots
    /\ ActiveSlots # Slots

\* C3: after tcp_socket_connection_start has returned, slot i of
\* global_socket holds the handle of binding i if binding i is active and its
\* connect succeeded, and is NULL otherwise.
C3_TableHoldsExactlyConnectedSlots ==
    TcpReturned =>
        \A i \in Slots :
            global_socket[i] =
                IF BindingActive(i) /\ conn_status[i] = CY_RSLT_SUCCESS
                THEN Handle(i) ELSE NULL

C3_Witness ==
    /\ TcpReturned
    /\ \E i \in FailedSlots : \E j \in ConnectedSlots :
          /\ i < j
          /\ global_socket[i] = NULL
          /\ global_socket[j] = Handle(j)
    /\ \E k \in Slots : ~BindingActive(k)

\* C4: when a connect failed, tcp_socket_connection_start returns the status
\* of the failing slot of highest index; a later success does not replace it.
C4_ReturnsLastFailure ==
    (TcpReturned /\ ConfigFound /\ FailedSlots # {}) =>
        tcp_ret = conn_status[MaxOf(FailedSlots)]

C4_Witness ==
    /\ TcpReturned
    /\ ConfigFound
    /\ \E i \in FailedSlots : \E j \in FailedSlots : \E k \in ConnectedSlots :
          /\ i < j
          /\ j < k
          /\ conn_status[i] # conn_status[j]
          /\ tcp_ret = conn_status[j]

AllSlotsEmpty == \A i \in Slots : global_socket[i] = NULL

\* C5: when the lookup gives no descriptor, or a descriptor whose policy
\* blob is NULL, no connect is attempted, every slot of global_socket stays
\* NULL and the function returns CY_RSLT_TYPE_ERROR.
C5_MissingConfigurationIsTypeError ==
    ConfigMissing =>
        /\ attempted = <<>>
        /\ AllSlotsEmpty
        /\ TcpReturned => tcp_ret = CY_RSLT_TYPE_ERROR

C5_Witness ==
    /\ TcpReturned
    /\ offload_list # NULL
    /\ Downloaded(offload_list) = NULL
    /\ tcp_ret = CY_RSLT_TYPE_ERROR

WifiReturned == wifi_ret # NoStatus

\* C6: after a successful cy_wcm_init, no attempt follows a successful one;
\* if attempt K is the first to succeed, wifi_connect makes exactly K
\* attempts (K within the retry bound) and returns CY_RSLT_SUCCESS; if every
\* attempt fails it makes exactly the retry bound of attempts and returns the
\* status of the last.
C6_RetryUntilFirstSuccess ==
    /\ wifi_first_ok # 0 => wifi_attempts = wifi_first_ok
    /\ wifi_attempts <= wifi_retry_max
    /\ (WifiReturned /\ wcm_init_status = CY_RSLT_SUCCESS) =>
          IF wifi_first_ok # 0
          THEN wifi_ret = CY_RSLT_SUCCESS
          ELSE /\ wifi_attempts = wifi_retry_max
               /\ wifi_ret = wifi_last
               /\ wifi_ret # CY_RSLT_SUCCESS

C6_Witness ==
    /\ WifiReturned
    /\ wcm_init_status = CY_RSLT_SUCCESS
    /\ wifi_first_ok >= 2
    /\ wifi_attempts = wifi_first_ok
    /\ wifi_ret = CY_RSLT_SUCCESS

\* C7: cy_wcm_init is called once per call of wifi_connect; when it fails no
\* association attempt is made and wifi_connect returns the status it gave.
C7_InitFailureReturnsAtOnce ==
    /\ wcm_init_calls <= 1
    /\ WifiReturned => wcm_init_calls = 1
    /\ wcm_init_status \in WcmErrors =>
          /\ wifi_attempts = 0
          /\ pc # "wifi_loop"
          /\ WifiReturned => wifi_ret = wcm_init_status

C7_Witness ==
    /\ WifiReturned
    /\ wcm_init_status \in WcmErrors
    /\ wifi_ret = wcm_init_status
    /\ wifi_attempts = 0
    /\ wcm_init_calls = 1

\* The address of the sentinel that ends the list starting at address 1.
SentinelPos == CHOOSE p \in 1 .. Len(ol_mem) :
                  /\ ~ol_mem[p].named
                  /\ \A q \in 1 .. (p - 1) : ol_mem[q].named

\* Addresses of the list's descriptors, and those a lookup may read.
ListAddrs == IF ol_base = NULL THEN {} ELSE 1 .. (SentinelPos - 1)

ReadableAddrs == IF ol_base = NULL THEN {} ELSE 1 .. SentinelPos

\* Descriptors of the list whose stored name is the given name.
StoredAs(name) == {p \in ListAddrs : ol_mem[p].name = name}

\* C8: a lookup by a name that is the stored name of exactly one descriptor
\* returns that descriptor, a lookup by a name no descriptor stores returns
\* NULL, and no lookup reads an entry beyond the terminating sentinel.
C8_LookupByStoredName ==
    \A k \in 1 .. Len(lookup_log) :
        /\ Cardinality(StoredAs(lookup_name)) = 1 => lookup_log[k].ret \in StoredAs(lookup_name)
        /\ StoredAs(lookup_name) = {} => lookup_log[k].ret = NULL
        /\ lookup_log[k].examined \subseteq ReadableAddrs

IdleLoopStates == {"call_suspend", "suspended", "settling"}

\* C9: once created the idle task is always at one of the three places of its
\* loop, each of which has a next step, and every return from wait_net_suspend
\* (the task is then in its settle delay) is followed by another call of
\* wait_net_suspend.
C9_IdleLoopRearms ==
    /\ [](idle_pc # "not_created" => idle_pc \in IdleLoopStates)
    /\ ((idle_pc = "settling") ~> (idle_pc = "suspended"))

C9_Witness ==
    /\ idle_pc = "suspended"
    /\ suspend_calls >= 2
    /\ idle_last = "wait_net_suspend"

\* wifi_connect made an attempt and none succeeded.
AssociationFailed == WifiReturned /\ wifi_attempts > 0 /\ wifi_first_ok = 0

TcpStarted == pc \in {"sock_init", "sock_assert", "find", "conn_loop", "tcp_return"} \/ TcpReturned

SocketInitFailed == sock_init_status \in SocketInitErrors

\* C12: cy_socket_init is called once; when it fails the function stops
\* there: the descriptor is not looked up, no connect is attempted, every slot
\* of global_socket stays NULL and the function never returns to its caller.
C12_SocketInitFailureIsFatal ==
    /\ sock_init_calls <= 1
    /\ SocketInitFailed =>
          /\ pc \in {"sock_assert", "halted"}
          /\ sock_init_calls = 1
          /\ find_calls = 0
          /\ offload_list = NULL
          /\ attempted = <<>>
          /\ AllSlotsEmpty
          /\ tcp_ret = NoStatus
          /\ idle_pc = "not_created"

C12_Witness ==
    /\ SocketInitFailed
    /\ pc = "halted"
    /\ sock_init_calls = 1
    /\ wifi_ret = CY_RSLT_SUCCESS

\* a is an initial part of b (possibly all of it).
IsPrefix(a, b) == Len(a) <= Len(b) /\ SubSeq(b, 1, Len(a)) = a

\* Descriptors of the list whose stored name begins with the given name.
StoredWithPrefix(name) == {p \in ListAddrs : IsPrefix(name, ol_mem[p].name)}

MinOf(S) == CHOOSE x \in S : \A y \in S : x <= y

\* C14: a lookup returns the earliest descriptor of the list whose stored
\* name begins with the requested name, whether or not the stored name is
\* longer, and NULL when no stored name begins with it.
C14_FirstPrefixMatch ==
    \A k \in 1 .. Len(lookup_log) :
        lookup_log[k].ret =
            IF StoredWithPrefix(lookup_name) = {} THEN NULL
            ELSE MinOf(StoredWithPrefix(lookup_name))

C14_Witness ==
    /\ lookup_log # <<>>
    /\ lookup_name = TCP_KEEPALIVE_OFFLOAD
    /\ lookup_log[1].ret = 1
    /\ ListAddrs = {1, 2}
    /\ ol_mem[1].name = TKOX
    /\ ol_mem[2].name = TCP_KEEPALIVE_OFFLOAD

\* A step in which the idle task calls wait_net_suspend, or vTaskDelay.
SuspendCallStep == idle_pc # "suspended" /\ idle_pc' = "suspended"

DelayCallStep == idle_pc # "settling" /\ idle_pc' = "settling"

\* C15: the idle task's first call is wait_net_suspend; its calls alternate,
\* a wait_net_suspend call coming first or after a vTaskDelay and a vTaskDelay
\* after a wait_net_suspend call; every wait_net_suspend call carries
\* portMAX_DELAY, NETWORK_INACTIVE_INTERVAL_MS and NETWORK_INACTIVE_WINDOW_MS.
C15_IdleLoopAlternates ==
    /\ []((idle_pc # "not_created" /\ idle_last = "none") => idle_pc = "call_suspend")
    /\ [](idle_last # "none" =>
            suspend_args = <<"portMAX_DELAY", "NETWORK_INACTIVE_INTERVAL_MS",
                             "NETWORK_INACTIVE_WINDOW_MS">>)
    /\ [][/\ SuspendCallStep =>
                /\ idle_last \in {"none", "vTaskDelay"}
                /\ idle_last' = "wait_net_suspend"
          /\ DelayCallStep =>
                /\ idle_last = "wait_net_suspend"
                /\ idle_last' = "vTaskDelay"
          /\ idle_last' # idle_last => (SuspendCallStep \/ DelayCallStep)
         ]_vars

C15_Witness ==
    /\ idle_pc = "settling"
    /\ idle_last = "vTaskDelay"
    /\ suspend_calls >= 2
    /\ suspend_args = SuspendArgs

\* Slots whose binding was passed to cy_tcp_create_socket_connection.
AttemptedSlots == {i \in Slots : conn_status[i] # NoStatus}

\* C16: a connect is attempted for slot i if and only if binding i is active
\* (while the loop runs, for the slots below index); when no binding is
\* active the function attempts nothing, leaves the table empty and returns
\* CY_RSLT_SUCCESS.
C16_ConnectIffActive ==
    /\ (ConfigFound /\ pc = "conn_loop") =>
          AttemptedSlots = {i \in ActiveSlots : i < index}
    /\ (ConfigFound /\ TcpReturned) =>
          /\ AttemptedSlots = ActiveSlots
          /\ ActiveSlots = {} =>
                /\ attempted = <<>>
                /\ AllSlotsEmpty
                /\ tcp_ret = CY_RSLT_SUCCESS
    /\ ~ConfigFound => AttemptedSlots = {}

C16_Witness ==
    /\ ConfigFound
    /\ TcpReturned
    /\ ActiveSlots = {}
    /\ \E i \in Slots : tko_ports[i].remote_port > 0 /\ tko_ports[i].local_port > 0
    /\ \E i \in Slots : tko_ports[i].remote_ip # NULL_IP_ADDRESS
    /\ attempted = <<>>
    /\ tcp_ret = CY_RSLT_SUCCESS

\* C17: whatever the retry bound, when wifi_connect returns CY_RSLT_SUCCESS
\* an association attempt was made and the last attempt made succeeded.
C17_SuccessMeansAnAttemptSucceeded ==
    (WifiReturned /\ wifi_ret = CY_RSLT_SUCCESS) =>
        /\ wifi_attempts > 0
        /\ wifi_last = CY_RSLT_SUCCESS

====
